---- MODULE Spec2Model ----
(***************************************************************************)
(* A model of the Digraph class template of src/Digraph.hpp: the adjacency *)
(* map m, the cached listings v and e, the counters vertexC and edgeC, and *)
(* the member functions that read and change them.                         *)
(***************************************************************************)
EXTENDS Integers, Sequences, FiniteSets, TLC

\* ------------------------------------------------------------------ bounds
\* Vertex numbers are drawn from 1..MaxId.
MaxId == 3
\* A graph holds at most MaxEdges edges (the guard of the AddEdge action).
MaxEdges == 2

\* The graphs the query specification SpecQ starts from hold at most
\* MaxEdgesQ edges.
MaxEdgesQ == 3
\* In SpecQ an edge's payload is a number of 0..MaxWeight, from which the
\* callers' weight functions compute the weight.
MaxWeight == 1

\* In SpecCM, with its two objects, vertex numbers are drawn from 1..MaxIdCM,
\* the objects together hold at most MaxHeapVertices vertices and
\* MaxHeapEdges edges, and an add is called only while the counter it
\* increments is below MaxCount.
MaxIdCM == 2
MaxHeapVertices == 2
MaxHeapEdges == 2
MaxCount == 2

Ids == 1..MaxId
IdsCM == 1..MaxIdCM
\* VertexInfo and EdgeInfo are opaque, copyable payloads.
VertexInfos == {"p", "q"}
EdgeInfos == {"r", "s"}

\* The objects of the program: a exists from the start, b is constructed
\* (default, copy or move) and destroyed by the actions of SpecCM.
Objs == {"a", "b"}

VARIABLES
    g,       \* g[o]: the members m, v, e, vertexC, edgeC of Digraph object o
    live,    \* the objects that are constructed
    result,  \* how the last call ended: "ok" or the exception it threw
    call     \* the last call: its name and, for a query, its arguments and
             \* the value it returned

vars == <<g, live, result, call>>

\* ------------------------------------------------------- values and helpers
\* How a call ends. DigraphException is thrown with four kinds of reason; the
\* names are those of the error taxonomy. std::out_of_range is what
\* std::map::at and std::vector::at throw; "undefined" is undefined behaviour.
NoSuchVertex == "NoSuchVertex"
NoSuchEdge == "NoSuchEdge"
VertexAlreadyExists == "VertexAlreadyExists"
EdgeAlreadyExists == "EdgeAlreadyExists"
OutOfRange == "std::out_of_range"
Undefined == "undefined"
Ok == "ok"
DigraphExceptions == {NoSuchVertex, NoSuchEdge, VertexAlreadyExists, EdgeAlreadyExists}

\* struct DigraphEdge
DigraphEdge(fromVertex, toVertex, einfo) ==
    [fromVertex |-> fromVertex, toVertex |-> toVertex, einfo |-> einfo]

\* struct DigraphVertex
DigraphVertex(vinfo, edges) == [vinfo |-> vinfo, edges |-> edges]

\* The empty containers: std::map, std::vector, std::list.
EmptyMap == [x \in {} |-> DigraphVertex("p", <<>>)]

\* Digraph(): no vertices, no edges, both counters 0.
Digraph == [m |-> EmptyMap, v |-> <<>>, e |-> <<>>, vertexC |-> 0, edgeC |-> 0]

\* The outcome of a member function: the object afterwards and how it ended.
Done(G) == [g |-> G, r |-> Ok]
Throw(G, reason) == [g |-> G, r |-> reason]

\* m[vertex] = value (insert or overwrite)
MapPut(m, vertex, value) ==
    [x \in DOMAIN m \cup {vertex} |-> IF x = vertex THEN value ELSE m[x]]

\* Does some element of the list of edges point to toVertex?
HasEdgeTo(edges, toVertex) == \E i \in 1..Len(edges) : edges[i].toVertex = toVertex

\* std::find: the first position holding x, or 0 (end())
FindFirst(s, x) ==
    IF \E i \in 1..Len(s) : s[i] = x
    THEN CHOOSE i \in 1..Len(s) : s[i] = x /\ \A j \in 1..(i - 1) : s[j] # x
    ELSE 0

\* vector::erase of one position
EraseAt(s, i) == [j \in 1..(Len(s) - 1) |-> IF j < i THEN s[j] ELSE s[j + 1]]

\* ------------------------------------------------------------ private helpers
\* VertexExist: searches the listing v, throws if the vertex is not in it.
VertexExist(G, vertex) == \E i \in 1..Len(G.v) : G.v[i] = vertex

\* findVertex: m.find(vertex), throws if it is end().
findVertex(G, vertex) == vertex \in DOMAIN G.m

\* findVertexNotExist: throws if m.find(vertex) is not end().
findVertexNotExist(G, vertex) == vertex \notin DOMAIN G.m

\* indexOf: the first index of vertex in vertices, or -1 (0-based as in the code)
indexOf(vertex, vertices) == FindFirst(vertices, vertex) - 1

\* ------------------------------------------------------------------ queries
vertices(G) == G.v

edges(G) == G.e

vertexCount(G) == G.vertexC

edgeCount(G) == G.edgeC

\* edges(vertex): the pairs of the vertex's outgoing list
edgesOf(G, vertex) ==
    IF ~VertexExist(G, vertex) THEN [r |-> NoSuchVertex, val |-> <<>>]
    ELSE IF vertex \notin DOMAIN G.m THEN [r |-> OutOfRange, val |-> <<>>]
    ELSE [r |-> Ok,
          val |-> [i \in 1..Len(G.m[vertex].edges) |->
                      <<G.m[vertex].edges[i].fromVertex, G.m[vertex].edges[i].toVertex>>]]

vertexInfo(G, vertex) ==
    IF ~VertexExist(G, vertex) THEN [r |-> NoSuchVertex, val |-> <<>>]
    ELSE IF vertex \notin DOMAIN G.m THEN [r |-> OutOfRange, val |-> <<>>]
    ELSE [r |-> Ok, val |-> G.m[vertex].vinfo]

\* edgeInfo without VertexExist(toVertex).
edgeInfo_NoToCheck(G, fromVertex, toVertex) ==
    IF ~VertexExist(G, fromVertex) THEN [r |-> NoSuchVertex, val |-> <<>>]
    ELSE IF fromVertex \notin DOMAIN G.m THEN [r |-> OutOfRange, val |-> <<>>]
    ELSE LET es == G.m[fromVertex].edges
         IN  IF HasEdgeTo(es, toVertex)
             THEN [r |-> Ok,
                   val |-> es[CHOOSE i \in 1..Len(es) :
                                /\ es[i].toVertex = toVertex
                                /\ \A j \in 1..(i - 1) : es[j].toVertex # toVertex].einfo]
             ELSE [r |-> NoSuchEdge, val |-> <<>>]

edgeInfo(G, fromVertex, toVertex) ==
    IF ~VertexExist(G, fromVertex) THEN [r |-> NoSuchVertex, val |-> <<>>]
    ELSE IF ~VertexExist(G, toVertex) THEN [r |-> NoSuchVertex, val |-> <<>>]
    ELSE IF fromVertex \notin DOMAIN G.m THEN [r |-> OutOfRange, val |-> <<>>]
    ELSE LET es == G.m[fromVertex].edges
         IN  IF HasEdgeTo(es, toVertex)
             THEN [r |-> Ok,
                   val |-> es[CHOOSE i \in 1..Len(es) :
                                /\ es[i].toVertex = toVertex
                                /\ \A j \in 1..(i - 1) : es[j].toVertex # toVertex].einfo]
             ELSE [r |-> NoSuchEdge, val |-> <<>>]

edgeCountOf(G, vertex) ==
    IF ~VertexExist(G, vertex) THEN [r |-> NoSuchVertex, val |-> 0]
    ELSE IF vertex \notin DOMAIN G.m THEN [r |-> OutOfRange, val |-> 0]
    ELSE [r |-> Ok, val |-> Len(G.m[vertex].edges)]

\* ----------------------------------------------------------------- mutators
\* addVertex without "vertexC++".
addVertex_NoCount(G, vertex, vinfo) ==
    IF ~findVertexNotExist(G, vertex) THEN Throw(G, VertexAlreadyExists)
    ELSE Done([G EXCEPT !.v = Append(@, vertex),
                        !.m = MapPut(@, vertex, DigraphVertex(vinfo, <<>>))])

addVertex(G, vertex, vinfo) ==
    IF ~findVertexNotExist(G, vertex) THEN Throw(G, VertexAlreadyExists)
    ELSE Done([G EXCEPT !.vertexC = @ + 1,
                        !.v = Append(@, vertex),
                        !.m = MapPut(@, vertex, DigraphVertex(vinfo, <<>>))])

\* addEdge without findVertex(toVertex).
addEdge_NoToCheck(G, fromVertex, toVertex, einfo) ==
    IF ~findVertex(G, fromVertex) THEN Throw(G, NoSuchVertex)
    ELSE IF HasEdgeTo(G.m[fromVertex].edges, toVertex) THEN Throw(G, EdgeAlreadyExists)
    ELSE Done([G EXCEPT !.edgeC = @ + 1,
                        !.e = Append(@, <<fromVertex, toVertex>>),
                        !.m[fromVertex].edges =
                            Append(@, DigraphEdge(fromVertex, toVertex, einfo))])

\* addEdge without the loop that looks for an edge to toVertex.
addEdge_NoDupCheck(G, fromVertex, toVertex, einfo) ==
    IF ~findVertex(G, fromVertex) THEN Throw(G, NoSuchVertex)
    ELSE IF ~findVertex(G, toVertex) THEN Throw(G, NoSuchVertex)
    ELSE Done([G EXCEPT !.edgeC = @ + 1,
                        !.e = Append(@, <<fromVertex, toVertex>>),
                        !.m[fromVertex].edges =
                            Append(@, DigraphEdge(fromVertex, toVertex, einfo))])

addEdge(G, fromVertex, toVertex, einfo) ==
    IF ~findVertex(G, fromVertex) THEN Throw(G, NoSuchVertex)
    ELSE IF ~findVertex(G, toVertex) THEN Throw(G, NoSuchVertex)
    ELSE IF HasEdgeTo(G.m[fromVertex].edges, toVertex) THEN Throw(G, EdgeAlreadyExists)
    ELSE Done([G EXCEPT !.edgeC = @ + 1,
                        !.e = Append(@, <<fromVertex, toVertex>>),
                        !.m[fromVertex].edges =
                            Append(@, DigraphEdge(fromVertex, toVertex, einfo))])

\* The loop "for (int n: vs) addVertex(n, src.at(n).vinfo)" on the outcome R so
\* far; an exception ends it with what has been added.
RECURSIVE AddVerticesFrom(_, _, _)
AddVerticesFrom(R, vs, src) ==
    IF R.r # Ok \/ vs = <<>> THEN R
    ELSE IF Head(vs) \notin DOMAIN src THEN Throw(R.g, OutOfRange)
    ELSE AddVerticesFrom(addVertex(R.g, Head(vs), src[Head(vs)].vinfo), Tail(vs), src)

\* The inner loop "for (auto edge: src.at(n).edges)": addEdge for every edge
\* that touches no vertex of the set without.
RECURSIVE AddEdgeList(_, _, _)
AddEdgeList(R, es, without) ==
    IF R.r # Ok \/ es = <<>> THEN R
    ELSE LET edge == Head(es)
         IN  IF edge.fromVertex \notin without /\ edge.toVertex \notin without
             THEN AddEdgeList(addEdge(R.g, edge.fromVertex, edge.toVertex, edge.einfo),
                              Tail(es), without)
             ELSE AddEdgeList(R, Tail(es), without)

\* The outer loop "for (int n: vs)" over the lists of edges.
RECURSIVE AddEdgesFrom(_, _, _, _)
AddEdgesFrom(R, vs, src, without) ==
    IF R.r # Ok \/ vs = <<>> THEN R
    ELSE IF Head(vs) \notin DOMAIN src THEN Throw(R.g, OutOfRange)
    ELSE AddEdgesFrom(AddEdgeList(R, src[Head(vs)].edges, without), Tail(vs), src, without)

\* removeVertex without "vertexC = 0; edgeC = 0;" before the rebuild.
removeVertex_KeepCounters(G, vertex) ==
    LET v_ == SelectSeq(G.v, LAMBDA ve : ve # vertex)
        m_ == G.m
        start == [Digraph EXCEPT !.vertexC = G.vertexC, !.edgeC = G.edgeC]
    IN  AddEdgesFrom(AddVerticesFrom(Done(start), v_, m_), v_, m_, {vertex})

\* removeVertex without its second loop: the edges are not added again.
removeVertex_NoEdges(G, vertex) ==
    LET v_ == SelectSeq(G.v, LAMBDA ve : ve # vertex)
        m_ == G.m
    IN  AddVerticesFrom(Done(Digraph), v_, m_)

\* removeVertex with its loops running over the remaining vertices from the
\* last to the first.
removeVertex_Reversed(G, vertex) ==
    LET kept == SelectSeq(G.v, LAMBDA ve : ve # vertex)
        v_ == [i \in 1..Len(kept) |-> kept[Len(kept) + 1 - i]]
        m_ == G.m
    IN  AddEdgesFrom(AddVerticesFrom(Done(Digraph), v_, m_), v_, m_, {vertex})

\* removeVertex: rebuilds m, v, e and both counters from the vertices other
\* than vertex and the edges that do not touch it. It tests nowhere that
\* vertex is present.
removeVertex(G, vertex) ==
    LET v_ == SelectSeq(G.v, LAMBDA ve : ve # vertex)
        m_ == G.m
    IN  AddEdgesFrom(AddVerticesFrom(Done(Digraph), v_, m_), v_, m_, {vertex})

\* removeEdge with "edgeC--" before the call of edgeInfo that validates.
removeEdge_CountFirst(G, fromVertex, toVertex) ==
    LET G0 == [G EXCEPT !.edgeC = @ - 1]
    IN  IF edgeInfo(G, fromVertex, toVertex).r # Ok
        THEN Throw(G0, edgeInfo(G, fromVertex, toVertex).r)
        ELSE LET edges_ == SelectSeq(G.m[fromVertex].edges, LAMBDA i : i.toVertex # toVertex)
                 it == FindFirst(G.e, <<fromVertex, toVertex>>)
                 G1 == [G0 EXCEPT !.m[fromVertex].edges = edges_]
             IN  IF it = 0 THEN Throw(G1, Undefined)
                 ELSE Done([G1 EXCEPT !.e = EraseAt(@, it)])

\* removeEdge that erases from e the first pair with the source fromVertex.
removeEdge_FirstOfSource(G, fromVertex, toVertex) ==
    IF edgeInfo(G, fromVertex, toVertex).r # Ok
    THEN Throw(G, edgeInfo(G, fromVertex, toVertex).r)
    ELSE LET edges_ == SelectSeq(G.m[fromVertex].edges, LAMBDA i : i.toVertex # toVertex)
             it == IF \E k \in 1..Len(G.e) : G.e[k][1] = fromVertex
                   THEN CHOOSE k \in 1..Len(G.e) :
                           /\ G.e[k][1] = fromVertex
                           /\ \A j \in 1..(k - 1) : G.e[j][1] # fromVertex
                   ELSE 0
             G1 == [G EXCEPT !.edgeC = @ - 1, !.m[fromVertex].edges = edges_]
         IN  IF it = 0 THEN Throw(G1, Undefined)
             ELSE Done([G1 EXCEPT !.e = EraseAt(@, it)])

\* removeEdge without "e.erase(it)": the pair stays in the listing.
removeEdge_KeepPair(G, fromVertex, toVertex) ==
    IF edgeInfo(G, fromVertex, toVertex).r # Ok
    THEN Throw(G, edgeInfo(G, fromVertex, toVertex).r)
    ELSE LET edges_ == SelectSeq(G.m[fromVertex].edges, LAMBDA i : i.toVertex # toVertex)
         IN  Done([G EXCEPT !.edgeC = @ - 1, !.m[fromVertex].edges = edges_])

removeEdge(G, fromVertex, toVertex) ==
    IF edgeInfo(G, fromVertex, toVertex).r # Ok
    THEN Throw(G, edgeInfo(G, fromVertex, toVertex).r)
    ELSE LET edges_ == SelectSeq(G.m[fromVertex].edges, LAMBDA i : i.toVertex # toVertex)
             it == FindFirst(G.e, <<fromVertex, toVertex>>)
             G1 == [G EXCEPT !.edgeC = @ - 1, !.m[fromVertex].edges = edges_]
         IN  IF it = 0 THEN Throw(G1, Undefined)
             ELSE Done([G1 EXCEPT !.e = EraseAt(@, it)])

\* ------------------------------------------------------- strong connectivity
\* DFTr: erases vertex from the working copy vertices, then visits, in the
\* order of the list of outgoing edges, every target still in the copy. The
\* outcome is the working copy afterwards; a vertex that is not in the copy
\* makes erase(begin() - 1) undefined, a vertex that is not a key of m makes
\* m.at throw.
RECURSIVE DFTr(_, _, _), DFTrEdges(_, _, _)
DFTr(G, vertex, R) ==
    IF R.r # Ok THEN R
    ELSE LET index == indexOf(vertex, R.val)
         IN  IF index = -1 THEN [r |-> Undefined, val |-> R.val]
             ELSE LET erased == [r |-> Ok, val |-> EraseAt(R.val, index + 1)]
                  IN  IF vertex \notin DOMAIN G.m
                      THEN [r |-> OutOfRange, val |-> erased.val]
                      ELSE DFTrEdges(G, G.m[vertex].edges, erased)

DFTrEdges(G, es, R) ==
    IF R.r # Ok \/ es = <<>> THEN R
    ELSE IF indexOf(Head(es).toVertex, R.val) # -1
         THEN DFTrEdges(G, Tail(es), DFTr(G, Head(es).toVertex, R))
         ELSE DFTrEdges(G, Tail(es), R)

\* The loop of isStronglyConnected over the roots still to try: each sweep
\* starts from a fresh copy of v, the first one that leaves a vertex in the
\* copy ends the loop with false.
RECURSIVE SweepFrom(_, _)
SweepFrom(G, roots) ==
    IF roots = <<>> THEN [r |-> Ok, val |-> TRUE]
    ELSE LET swept == DFTr(G, Head(roots), [r |-> Ok, val |-> G.v])
         IN  IF swept.r # Ok THEN [r |-> swept.r, val |-> FALSE]
             ELSE IF Len(swept.val) # 0 THEN [r |-> Ok, val |-> FALSE]
             ELSE SweepFrom(G, Tail(roots))

\* isStronglyConnected with a sweep from the first vertex only.
isStronglyConnected_FirstRoot(G) ==
    SweepFrom(G, IF G.v = <<>> THEN <<>> ELSE <<Head(G.v)>>)

isStronglyConnected(G) == SweepFrom(G, G.v)

\* ------------------------------------------------------------ shortest paths
\* std::numeric_limits<double>::max(), the initial tentative distance. The
\* weights of the model are small naturals, so that no sum of weights along a
\* path comes near it.
DoubleMax == 1000000

\* std::pair's operator< on (distance, vertex)
PairLess(p, q) == p[1] < q[1] \/ (p[1] = q[1] /\ p[2] < q[2])

\* The place of a greatest pair: the queue without greater<>.
TopIndex_Greatest(pq) ==
    CHOOSE i \in 1..Len(pq) : \A j \in 1..Len(pq) : ~PairLess(pq[i], pq[j])

\* The place of the pair that priority_queue<..., greater<>> has on top: a
\* least one.
TopIndex(pq) == CHOOSE i \in 1..Len(pq) : \A j \in 1..Len(pq) : ~PairLess(pq[j], pq[i])

\* top()
Top(pq) == pq[TopIndex(pq)]

\* The loop without "pq.pop()".
Pop_Keep(pq) == pq

\* pop()
Pop(pq) == EraseAt(pq, TopIndex(pq))

\* The state of findShortestPaths between two iterations of its while loop:
\* Kv (visited), Dv (tentative distance), both indexed like v; Pv, the
\* predecessor map; pq, the queue; r, how the call has gone so far.
\* The indices are those of the code plus one.
SPInit(G, startVertex) ==
    [Kv |-> [i \in 1..Len(G.v) |-> FALSE],
     Pv |-> [x \in {G.v[i] : i \in 1..Len(G.v)} |-> x],
     Dv |-> [i \in 1..Len(G.v) |->
                IF i = indexOf(startVertex, G.v) + 1 THEN 0 ELSE DoubleMax],
     pq |-> << <<0, startVertex>> >>,
     r |-> Ok]

\* The test with >= for >.
Improves_OrEqual(old, new) == old >= new

\* Is the new tentative distance an improvement? The code's test is
\* Dv[indexW] > Dv[index] + weight.
Improves(old, new) == old > new

\* The relaxation with the edge's weight alone for the new distance.
Relax_WeightOnly(G, edgeWeightFunc, S, vertex, edge) ==
    LET w == edge.toVertex
        indexW == indexOf(w, G.v) + 1
        info == edgeInfo(G, vertex, w)
    IN  IF indexW = 0 THEN [S EXCEPT !.r = Undefined]
        ELSE IF info.r # Ok THEN [S EXCEPT !.r = info.r]
        ELSE LET d == edgeWeightFunc[info.val]
             IN  IF Improves(S.Dv[indexW], d)
                 THEN [S EXCEPT !.Dv[indexW] = d,
                                !.Pv = MapPut(@, w, vertex),
                                !.pq = Append(@, <<d, w>>)]
                 ELSE S

\* The body of "for (auto edge: m.at(vertex).edges)" for one edge.
Relax(G, edgeWeightFunc, S, vertex, edge) ==
    LET w == edge.toVertex
        index == indexOf(vertex, G.v) + 1
        indexW == indexOf(w, G.v) + 1
        info == edgeInfo(G, vertex, w)
    IN  IF indexW = 0 THEN [S EXCEPT !.r = Undefined]
        ELSE IF info.r # Ok THEN [S EXCEPT !.r = info.r]
        ELSE LET d == S.Dv[index] + edgeWeightFunc[info.val]
             IN  IF Improves(S.Dv[indexW], d)
                 THEN [S EXCEPT !.Dv[indexW] = d,
                                !.Pv = MapPut(@, w, vertex),
                                !.pq = Append(@, <<d, w>>)]
                 ELSE S

RECURSIVE RelaxAll(_, _, _, _, _)
RelaxAll(G, edgeWeightFunc, S, vertex, es) ==
    IF S.r # Ok \/ es = <<>> THEN S
    ELSE RelaxAll(G, edgeWeightFunc, Relax(G, edgeWeightFunc, S, vertex, Head(es)),
                  vertex, Tail(es))

\* One iteration of "while (!pq.empty())": pop the least pair; if its vertex
\* is not visited yet, mark it and relax its outgoing edges.
SPStep(G, edgeWeightFunc, S) ==
    LET vertex == Top(S.pq)[2]
        popped == [S EXCEPT !.pq = Pop(S.pq)]
        index == indexOf(vertex, G.v) + 1
    IN  IF index = 0 THEN [popped EXCEPT !.r = Undefined]
        ELSE IF S.Kv[index] # FALSE THEN popped
        ELSE IF vertex \notin DOMAIN G.m THEN [popped EXCEPT !.Kv[index] = TRUE, !.r = OutOfRange]
        ELSE RelaxAll(G, edgeWeightFunc, [popped EXCEPT !.Kv[index] = TRUE],
                      vertex, G.m[vertex].edges)

RECURSIVE SPRun(_, _, _)
SPRun(G, edgeWeightFunc, S) ==
    IF S.r # Ok \/ S.pq = <<>> THEN S
    ELSE SPRun(G, edgeWeightFunc, SPStep(G, edgeWeightFunc, S))

\* findShortestPaths with a start vertex that is in v: the final state of the
\* loop; its Pv is what the call returns.
findShortestPaths(G, startVertex, edgeWeightFunc) ==
    SPRun(G, edgeWeightFunc, SPInit(G, startVertex))

\* With a start vertex that is not in v, indexOf gives -1 and Dv[-1] = 0
\* writes before the array: undefined behaviour. What a build can then do:
\* crash; read Kv[-1] as false and have m.at(startVertex) throw
\* std::out_of_range; read Kv[-1] as true and return the identity map.
StartAbsentOutcomes(G) ==
    {[r |-> Undefined, val |-> <<>>],
     [r |-> OutOfRange, val |-> <<>>],
     [r |-> Ok, val |-> SPInit(G, 0).Pv]}

\* ------------------------------------------------------------------ actions
\* What call holds while nothing has been called.
NoCall == [op |-> "none"]

Init ==
    /\ g = [o \in Objs |-> Digraph]
    /\ live = {"a"}
    /\ result = Ok
    /\ call = NoCall

\* A call that writes its outcome to every object, as if the objects shared
\* their containers.
Call_Shared(op, o, R) ==
    /\ g' = [d \in Objs |-> R.g]
    /\ result' = R.r
    /\ call' = [op |-> op]
    /\ UNCHANGED live

\* A call o.op(...) of a mutator, with outcome R
Call(op, o, R) ==
    /\ g' = [g EXCEPT ![o] = R.g]
    /\ result' = R.r
    /\ call' = [op |-> op]
    /\ UNCHANGED live

AddVertex(o, vertex, vinfo) ==
    /\ o \in live
    /\ Call("addVertex", o, addVertex(g[o], vertex, vinfo))

AddEdge(o, fromVertex, toVertex, einfo) ==
    /\ o \in live
    /\ Len(g[o].e) < MaxEdges
    /\ Call("addEdge", o, addEdge(g[o], fromVertex, toVertex, einfo))

RemoveVertex(o, vertex) ==
    /\ o \in live
    /\ Call("removeVertex", o, removeVertex(g[o], vertex))

RemoveEdge(o, fromVertex, toVertex) ==
    /\ o \in live
    /\ Call("removeEdge", o, removeEdge(g[o], fromVertex, toVertex))

Next ==
    \/ \E o \in Objs, vertex \in Ids, vinfo \in VertexInfos : AddVertex(o, vertex, vinfo)
    \/ \E o \in Objs, fromVertex \in Ids, toVertex \in Ids, einfo \in EdgeInfos :
          AddEdge(o, fromVertex, toVertex, einfo)
    \/ \E o \in Objs, vertex \in Ids : RemoveVertex(o, vertex)
    \/ \E o \in Objs, fromVertex \in Ids, toVertex \in Ids : RemoveEdge(o, fromVertex, toVertex)

Spec == Init /\ [][Next]_vars

\* ------------------------------------------- construction, copy, move, destroy
\* The body shared by the copy constructor and the copy assignment: both
\* counters 0 and empty containers, then addVertex for each vertex of d.v and
\* addEdge for each edge of each outgoing list.
CopyOf(d) == AddEdgesFrom(AddVerticesFrom(Done(Digraph), d.v, d.m), d.v, d.m, {})

\* What the move constructor and the move assignment leave in *this: every
\* member of d.
MoveOf(d) == [m |-> d.m, v |-> d.v, e |-> d.e, vertexC |-> d.vertexC, edgeC |-> d.edgeC]

\* What they leave in d: std::move of an int copies it; the moved-from map
\* and vectors are empty.
MovedFrom(d) == [d EXCEPT !.m = EmptyMap, !.v = <<>>, !.e = <<>>]

DefaultConstruct(o) ==
    /\ o \notin live
    /\ live' = live \cup {o}
    /\ g' = [g EXCEPT ![o] = Digraph]
    /\ result' = Ok
    /\ call' = [op |-> "Digraph()"]

\* Digraph o(d): an exception leaves o unconstructed.
CopyConstruct(o, d) ==
    /\ o \notin live
    /\ d \in live
    /\ live' = IF CopyOf(g[d]).r = Ok THEN live \cup {o} ELSE live
    /\ g' = [g EXCEPT ![o] = IF CopyOf(g[d]).r = Ok THEN CopyOf(g[d]).g ELSE Digraph]
    /\ result' = CopyOf(g[d]).r
    /\ call' = [op |-> "Digraph(const Digraph&)"]

\* Digraph o(std::move(d))
MoveConstruct(o, d) ==
    /\ o \notin live
    /\ d \in live
    /\ live' = live \cup {o}
    /\ g' = [g EXCEPT ![o] = MoveOf(g[d]), ![d] = MovedFrom(g[d])]
    /\ result' = Ok
    /\ call' = [op |-> "Digraph(Digraph&&)"]

\* o = d
CopyAssign(o, d) ==
    /\ o \in live
    /\ d \in live
    /\ g' = IF o # d THEN [g EXCEPT ![o] = CopyOf(g[d]).g] ELSE g
    /\ result' = IF o # d THEN CopyOf(g[d]).r ELSE Ok
    /\ call' = [op |-> "operator=(const Digraph&)"]
    /\ UNCHANGED live

\* o = std::move(d)
MoveAssign(o, d) ==
    /\ o \in live
    /\ d \in live
    /\ g' = IF o # d THEN [g EXCEPT ![o] = MoveOf(g[d]), ![d] = MovedFrom(g[d])] ELSE g
    /\ result' = Ok
    /\ call' = [op |-> "operator=(Digraph&&)"]
    /\ UNCHANGED live

\* The destructor: the object's slot of the model goes back to the empty value.
Destroy(o) ==
    /\ o \in live
    /\ live' = live \ {o}
    /\ g' = [g EXCEPT ![o] = Digraph]
    /\ result' = Ok
    /\ call' = [op |-> "~Digraph()"]

HeapVertices == Cardinality(UNION {{<<o, i>> : i \in 1..Len(g[o].v)} : o \in live})
HeapEdges == Cardinality(UNION {{<<o, i>> : i \in 1..Len(g[o].e)} : o \in live})

NextCM ==
    \/ \E o \in Objs, vertex \in IdsCM, vinfo \in VertexInfos :
          /\ HeapVertices < MaxHeapVertices
          /\ g[o].vertexC < MaxCount
          /\ AddVertex(o, vertex, vinfo)
    \/ \E o \in Objs, fromVertex \in IdsCM, toVertex \in IdsCM, einfo \in EdgeInfos :
          /\ HeapEdges < MaxHeapEdges
          /\ g[o].edgeC < MaxCount
          /\ AddEdge(o, fromVertex, toVertex, einfo)
    \/ \E o \in Objs, vertex \in IdsCM : RemoveVertex(o, vertex)
    \/ \E o \in Objs, fromVertex \in IdsCM, toVertex \in IdsCM :
          RemoveEdge(o, fromVertex, toVertex)
    \/ \E o \in Objs : DefaultConstruct(o)
    \/ \E o \in Objs, d \in Objs :
          /\ HeapVertices + Len(g[d].v) <= MaxHeapVertices
          /\ HeapEdges + Len(g[d].e) <= MaxHeapEdges
          /\ CopyConstruct(o, d)
    \/ \E o \in Objs, d \in Objs : MoveConstruct(o, d)
    \/ \E o \in Objs, d \in Objs :
          /\ HeapVertices - Len(g[o].v) + Len(g[d].v) <= MaxHeapVertices
          /\ HeapEdges - Len(g[o].e) + Len(g[d].e) <= MaxHeapEdges
          /\ CopyAssign(o, d)
    \/ \E o \in Objs, d \in Objs : MoveAssign(o, d)
    \/ \E o \in Objs : Destroy(o)

SpecCM == Init /\ [][NextCM]_vars

\* ----------------------------------------------------- the query specification
\* The payloads of the edges of SpecQ, and the callers' weight functions: the
\* payload itself (weights from 0, with ties) and the payload plus one (all
\* weights positive).
EdgeInfosQ == 0..MaxWeight
WeightFuncs == {[x \in EdgeInfosQ |-> x], [x \in EdgeInfosQ |-> x + 1]}

\* The graphs the queries are applied to are built by the mutators: addVertex
\* for the vertices of vs in order, then addEdge for the triples of es in
\* order. The scripts add the edges source by source in the order of v, which
\* is the order a rebuild (removeVertex, a copy) leaves in e; no query but
\* edges() reads e.
RECURSIVE BuildVertices(_, _), BuildEdges(_, _)
BuildVertices(R, vs) ==
    IF R.r # Ok \/ vs = <<>> THEN R
    ELSE BuildVertices(addVertex(R.g, Head(vs), IF Head(vs) = 1 THEN "p" ELSE "q"), Tail(vs))

BuildEdges(R, es) ==
    IF R.r # Ok \/ es = <<>> THEN R
    ELSE BuildEdges(addEdge(R.g, Head(es)[1], Head(es)[2], Head(es)[3]), Tail(es))

Build(vs, es) == BuildEdges(BuildVertices(Done(Digraph), vs), es)

VertexScripts == UNION {[1..n -> Ids] : n \in 0..MaxId}
EdgeScripts == UNION {[1..n -> Ids \X Ids \X EdgeInfosQ] : n \in 0..MaxEdgesQ}
BySource(vs, es) ==
    \A i \in 1..(Len(es) - 1) : indexOf(es[i][1], vs) <= indexOf(es[i + 1][1], vs)

InitQ ==
    /\ \E vs \in VertexScripts, es \in EdgeScripts :
          /\ BySource(vs, es)
          /\ Build(vs, es).r = Ok
          /\ g = [o \in Objs |-> IF o = "a" THEN Build(vs, es).g ELSE Digraph]
    /\ live = {"a"}
    /\ result = Ok
    /\ call = NoCall

\* A query o.f(...) that returns val or ends with r
Query(op, args, r, val) ==
    /\ result' = r
    /\ call' = [op |-> op, args |-> args, val |-> val]
    /\ UNCHANGED <<g, live>>

IsStronglyConnected(o) ==
    /\ o \in live
    /\ Query("isStronglyConnected", <<o>>,
             isStronglyConnected(g[o]).r, isStronglyConnected(g[o]).val)

FindShortestPaths(o, startVertex, edgeWeightFunc) ==
    /\ o \in live
    /\ IF indexOf(startVertex, g[o].v) # -1
       THEN LET S == findShortestPaths(g[o], startVertex, edgeWeightFunc)
            IN  Query("findShortestPaths", <<o, startVertex, edgeWeightFunc>>, S.r, S.Pv)
       ELSE \E out \in StartAbsentOutcomes(g[o]) :
               Query("findShortestPaths", <<o, startVertex, edgeWeightFunc>>, out.r, out.val)

NextQ ==
    \/ \E o \in Objs : IsStronglyConnected(o)
    \/ \E o \in Objs, startVertex \in Ids, edgeWeightFunc \in WeightFuncs :
          FindShortestPaths(o, startVertex, edgeWeightFunc)

SpecQ == InitQ /\ [][NextQ]_vars

\* ------------------------------------------------ the queries, step by step
\* The specification SpecR runs findShortestPaths and isStronglyConnected one
\* step of their loops at a time, on the graphs of InitQ. While a call runs,
\* call holds its name, its arguments, pc ("loop" inside the call, "return"
\* after it), the local variables S of the call and their values prev
\* before the last step; what the call returns is S.Pv (S.result). A behaviour of SpecR holds one
\* call: the queries are const, so a second call would start from the same
\* graph as the first.
Idle == call.op = "none"
Running(op) == call.op = op /\ call.pc = "loop"

Run(op, args, pc, prev, S) ==
    /\ call' = [op |-> op, args |-> args, pc |-> pc, prev |-> prev, S |-> S]
    /\ UNCHANGED <<g, live>>

\* findShortestPaths up to its while loop; the start vertex is one of v.
BeginShortestPaths(o, startVertex, edgeWeightFunc) ==
    /\ Idle
    /\ o \in live
    /\ indexOf(startVertex, g[o].v) # -1
    /\ result' = Ok
    /\ Run("findShortestPaths", <<o, startVertex, edgeWeightFunc>>, "loop",
           SPInit(g[o], startVertex), SPInit(g[o], startVertex))

\* One iteration of "while (!pq.empty())".
IterateShortestPaths ==
    /\ Running("findShortestPaths")
    /\ call.S.r = Ok
    /\ call.S.pq # <<>>
    /\ UNCHANGED result
    /\ Run(call.op, call.args, "loop", call.S,
           SPStep(g[call.args[1]], call.args[3], call.S))

\* The loop has ended, or an exception has left it: "return Pv".
ReturnShortestPaths ==
    /\ Running("findShortestPaths")
    /\ call.S.r # Ok \/ call.S.pq = <<>>
    /\ result' = call.S.r
    /\ Run(call.op, call.args, "return", call.S, call.S)

\* The local variables of isStronglyConnected and of the calls of DFTr it has
\* open: roots, the vertices the for loop has still to start from; vertices,
\* the working copy; stack, one frame per open call of DFTr with its vertex
\* and the edges its loop has still to look at; result; done, the loop has
\* ended; r, how the call has gone so far.
DFInit(G) ==
    [roots |-> G.v, vertices |-> <<>>, stack |-> <<>>, result |-> TRUE,
     done |-> FALSE, r |-> Ok]

\* The entry of DFTr(vertex, vertices): the search for vertex in the working
\* copy, the erase, and m.at(vertex) for the loop over the edges.
DFCall(G, D, vertex) ==
    LET index == indexOf(vertex, D.vertices)
    IN  IF index = -1 THEN [D EXCEPT !.r = Undefined]
        ELSE IF vertex \notin DOMAIN G.m
             THEN [D EXCEPT !.vertices = EraseAt(@, index + 1), !.r = OutOfRange]
        ELSE [D EXCEPT !.vertices = EraseAt(@, index + 1),
                       !.stack = Append(@, [vertex |-> vertex, es |-> G.m[vertex].edges])]

\* The head of "for (int vertex: v)": the loop ends, or the working copy is
\* made and DFTr is called on the next vertex.
DFSweep(G, D) ==
    IF D.roots = <<>> THEN [D EXCEPT !.done = TRUE]
    ELSE DFCall(G, [D EXCEPT !.vertices = G.v], Head(D.roots))

\* One iteration of "for (auto edge: m.at(vertex).edges)" in the innermost
\* open call of DFTr.
DFEdge(G, D) ==
    LET edge == Head(D.stack[Len(D.stack)].es)
        D1 == [D EXCEPT !.stack[Len(D.stack)].es = Tail(@)]
    IN  IF indexOf(edge.toVertex, D.vertices) # -1 THEN DFCall(G, D1, edge.toVertex) ELSE D1

\* The innermost open call of DFTr returns; when it is the call made by
\* isStronglyConnected, the test of the working copy's size follows.
DFReturn(G, D) ==
    LET D1 == [D EXCEPT !.stack = SubSeq(@, 1, Len(@) - 1)]
    IN  IF Len(D.stack) > 1 THEN D1
        ELSE IF Len(D.vertices) # 0 THEN [D1 EXCEPT !.result = FALSE, !.done = TRUE]
        ELSE [D1 EXCEPT !.roots = Tail(@)]

BeginStronglyConnected(o) ==
    /\ Idle
    /\ o \in live
    /\ result' = Ok
    /\ Run("isStronglyConnected", <<o>>, "loop", DFInit(g[o]), DFInit(g[o]))

DFStepping ==
    /\ Running("isStronglyConnected")
    /\ call.S.r = Ok
    /\ ~call.S.done

NextRoot ==
    /\ DFStepping
    /\ call.S.stack = <<>>
    /\ UNCHANGED result
    /\ Run(call.op, call.args, "loop", call.S, DFSweep(g[call.args[1]], call.S))

NextEdge ==
    /\ DFStepping
    /\ call.S.stack # <<>>
    /\ call.S.stack[Len(call.S.stack)].es # <<>>
    /\ UNCHANGED result
    /\ Run(call.op, call.args, "loop", call.S, DFEdge(g[call.args[1]], call.S))

ReturnDFTr ==
    /\ DFStepping
    /\ call.S.stack # <<>>
    /\ call.S.stack[Len(call.S.stack)].es = <<>>
    /\ UNCHANGED result
    /\ Run(call.op, call.args, "loop", call.S, DFReturn(g[call.args[1]], call.S))

ReturnStronglyConnected ==
    /\ Running("isStronglyConnected")
    /\ call.S.r # Ok \/ call.S.done
    /\ result' = call.S.r
    /\ Run(call.op, call.args, "return", call.S, call.S)

NextR ==
    \/ \E o \in Objs, startVertex \in Ids, edgeWeightFunc \in WeightFuncs :
          BeginShortestPaths(o, startVertex, edgeWeightFunc)
    \/ IterateShortestPaths
    \/ ReturnShortestPaths
    \/ \E o \in Objs : BeginStronglyConnected(o)
    \/ NextRoot
    \/ NextEdge
    \/ ReturnDFTr
    \/ ReturnStronglyConnected

SpecR == InitQ /\ [][NextR]_vars

\* The graphs of the termination check: those of InitQ with the vertices
\* added in the order of their numbers and every edge with payload 0, so
\* that under the two weight functions all weights are 0 or all are 1.
InitL ==
    /\ \E vs \in VertexScripts, es \in EdgeScripts :
          /\ \A i \in 1..Len(vs) : vs[i] = i
          /\ \A i \in 1..Len(es) : es[i][3] = 0
          /\ BySource(vs, es)
          /\ Build(vs, es).r = Ok
          /\ g = [o \in Objs |-> IF o = "a" THEN Build(vs, es).g ELSE Digraph]
    /\ live = {"a"}
    /\ result = Ok
    /\ call = NoCall

\* A call that has started goes on: the program is sequential and nothing
\* in it waits.
FairSpecR == InitL /\ [][NextR]_vars /\ WF_vars(NextR)

\* ------------------------------------------------------------------- claims
\* The identifiers present in a graph, the places of its edges (vertex,
\* position in the vertex's outgoing list) and the edge at a place.
Present(G) == DOMAIN G.m
EdgeSlots(G) == UNION {{<<x, i>> : i \in 1..Len(G.m[x].edges)} : x \in DOMAIN G.m}
EdgeAt(G, slot) == G.m[slot[1]].edges[slot[2]]
Elems(s) == {s[i] : i \in 1..Len(s)}
Touches(edge, x) == edge.fromVertex = x \/ edge.toVertex = x

\* C1: after any sequence of addVertex, addEdge, removeVertex and removeEdge
\* calls on an empty graph, succeeding or failing, vertexCount() is the number
\* of distinct identifiers present and edgeCount() is the sum of the sizes of
\* the outgoing lists.
C1_CountsMatch ==
    \A o \in live :
        /\ vertexCount(g[o]) = Cardinality(Present(g[o]))
        /\ edgeCount(g[o]) = Cardinality(EdgeSlots(g[o]))

\* A rebuild by removeVertex has left two vertices and an edge.
C1_Witness ==
    /\ call.op = "removeVertex"
    /\ result = Ok
    /\ vertexCount(g["a"]) = 2
    /\ edgeCount(g["a"]) >= 1

\* C2: removeVertex(id) with an id that is not present fails with
\* NoSuchVertex instead of returning normally.
C2_RemoveAbsentVertexThrows ==
    [][\A o \in Objs, vertex \in Ids :
          (call'.op = "removeVertex" /\ RemoveVertex(o, vertex) /\ vertex \notin Present(g[o]))
              => result' = NoSuchVertex]_vars

\* C3: every edge of an outgoing list and every pair of edges() has its source
\* and its destination among the vertices present, and removeVertex(v) leaves
\* no edge whose source or destination is v.
EdgesBetweenPresent(G) ==
    /\ \A slot \in EdgeSlots(G) :
          /\ EdgeAt(G, slot).fromVertex \in Present(G) \cap Elems(vertices(G))
          /\ EdgeAt(G, slot).toVertex \in Present(G) \cap Elems(vertices(G))
    /\ \A pair \in Elems(edges(G)) :
          /\ pair[1] \in Present(G) \cap Elems(vertices(G))
          /\ pair[2] \in Present(G) \cap Elems(vertices(G))

NoEdgeTouches(G, x) ==
    /\ \A slot \in EdgeSlots(G) : ~Touches(EdgeAt(G, slot), x)
    /\ \A pair \in Elems(edges(G)) : pair[1] # x /\ pair[2] # x

C3_EdgesBetweenPresent ==
    /\ [](\A o \in live : EdgesBetweenPresent(g[o]))
    /\ [][\A o \in Objs, vertex \in Ids :
             (call'.op = "removeVertex" /\ RemoveVertex(o, vertex))
                 => NoEdgeTouches(g'[o], vertex)]_vars

\* removeVertex has left two vertices with an edge between present vertices.
C3_Witness ==
    /\ call.op = "removeVertex"
    /\ Len(vertices(g["a"])) = 2
    /\ Len(edges(g["a"])) >= 1
    /\ EdgeSlots(g["a"]) # {}

\* C4: for a vertex v present, removeVertex(v) removes v and exactly the edges
\* that have v as source or destination: edgeCount() drops by their number (a
\* self-loop counted once), vertexCount() by 1, and every other vertex, vertex
\* payload, edge and edge payload is retained.
RemovesExactly(G, H, x) ==
    /\ edgeCount(H) =
          edgeCount(G) - Cardinality({slot \in EdgeSlots(G) : Touches(EdgeAt(G, slot), x)})
    /\ vertexCount(H) = vertexCount(G) - 1
    /\ Present(H) = Present(G) \ {x}
    /\ Elems(vertices(H)) = Elems(vertices(G)) \ {x}
    /\ \A y \in Present(H) :
          /\ H.m[y].vinfo = G.m[y].vinfo
          /\ H.m[y].edges = SelectSeq(G.m[y].edges, LAMBDA edge : ~Touches(edge, x))
    /\ Elems(edges(H)) = {pair \in Elems(edges(G)) : pair[1] # x /\ pair[2] # x}

C4_RemoveVertexExact ==
    [][\A o \in Objs, vertex \in Ids :
          (call'.op = "removeVertex" /\ RemoveVertex(o, vertex) /\ vertex \in Present(g[o]))
              => (result' = Ok /\ RemovesExactly(g[o], g'[o], vertex))]_vars

\* removeVertex has returned and left a graph with two vertices and an edge.
C4_Witness ==
    /\ call.op = "removeVertex"
    /\ result = Ok
    /\ Cardinality(Present(g["a"])) = 2
    /\ edgeCount(g["a"]) >= 1

\* C5: whenever addVertex, addEdge, removeVertex or removeEdge fails with an
\* error, the graph is exactly as before: vertices, payloads, edges, listings
\* and both counters.
C5_FailureLeavesGraph ==
    [][(call'.op \in {"addVertex", "addEdge", "removeVertex", "removeEdge"} /\ result' # Ok)
          => g' = g]_vars

\* A call has failed on a graph that holds two vertices and an edge.
C5_Witness ==
    /\ call.op \in {"addVertex", "addEdge", "removeEdge"}
    /\ result \in DigraphExceptions
    /\ vertexCount(g["a"]) = 2
    /\ edgeCount(g["a"]) >= 1

\* The vertices a directed path leads to from the vertices of S (S included).
RECURSIVE ReachFrom(_, _)
ReachFrom(G, S) ==
    LET T == S \cup {EdgeAt(G, slot).toVertex :
                        slot \in {sl \in EdgeSlots(G) : EdgeAt(G, sl).fromVertex \in S}}
    IN  IF T = S THEN S ELSE ReachFrom(G, T)

\* The last call was findShortestPaths on a, with a start vertex that is
\* present (absent).
SPCalled == call.op = "findShortestPaths" /\ call.args[1] = "a"
SPStartPresent == SPCalled /\ call.args[2] \in Elems(vertices(g["a"]))
SPStartAbsent == SPCalled /\ call.args[2] \notin Elems(vertices(g["a"]))

\* C6: for a start vertex present and non-negative weights, findShortestPaths
\* returns a map whose keys are exactly the graph's vertices (vertexCount()
\* of them), that maps the start to itself, and in which a vertex maps to
\* itself exactly when it is the start or no directed path leads to it from
\* the start.
C6_PredecessorMapShape ==
    SPStartPresent =>
        LET G == g["a"]
            s == call.args[2]
            Pv == call.val
        IN  /\ result = Ok
            /\ DOMAIN Pv = Elems(vertices(G))
            /\ Cardinality(DOMAIN Pv) = vertexCount(G)
            /\ Pv[s] = s
            /\ \A x \in DOMAIN Pv : (Pv[x] = x) <=> (x = s \/ x \notin ReachFrom(G, {s}))

\* The map returned for a graph of three vertices holds a vertex that is
\* reached and one that is not.
C6_Witness ==
    /\ SPStartPresent
    /\ Len(vertices(g["a"])) = 3
    /\ \E x \in DOMAIN call.val : call.val[x] # x
    /\ \E x \in DOMAIN call.val : x # call.args[2] /\ call.val[x] = x

\* The weight of the edge from u to x under f, and the least weight of a
\* directed path from s to each vertex (None where there is no path): the
\* relaxation of every edge, repeated to its fixed point. None is no weight.
None == 0 - 1
WeightOf(G, f, u, x) ==
    f[EdgeAt(G, CHOOSE slot \in EdgeSlots(G) :
                    EdgeAt(G, slot).fromVertex = u /\ EdgeAt(G, slot).toVertex = x).einfo]
MinOf(S) == CHOOSE n \in S : \A k \in S : n <= k
RECURSIVE LeastWeights(_, _, _)
LeastWeights(G, f, d) ==
    LET next == [x \in DOMAIN d |->
                    LET via == {d[EdgeAt(G, slot).fromVertex] + f[EdgeAt(G, slot).einfo] :
                                   slot \in {sl \in EdgeSlots(G) :
                                                /\ EdgeAt(G, sl).toVertex = x
                                                /\ d[EdgeAt(G, sl).fromVertex] # None}}
                        all == via \cup (IF d[x] = None THEN {} ELSE {d[x]})
                    IN  IF all = {} THEN None ELSE MinOf(all)]
    IN  IF next = d THEN d ELSE LeastWeights(G, f, next)
LeastWeightFrom(G, f, s) ==
    LeastWeights(G, f, [x \in Present(G) |-> IF x = s THEN 0 ELSE None])

\* Walking Pv from w towards s, at most fuel steps: the weight of the path
\* walked, or None if the walk meets a vertex that maps to itself, a step that
\* is no edge, or runs out of fuel.
RECURSIVE WalkWeight(_, _, _, _, _, _)
WalkWeight(G, f, Pv, s, w, fuel) ==
    IF w = s THEN 0
    ELSE IF fuel = 0 \/ Pv[w] = w THEN None
    ELSE IF ~\E slot \in EdgeSlots(G) :
                EdgeAt(G, slot).fromVertex = Pv[w] /\ EdgeAt(G, slot).toVertex = w
         THEN None
    ELSE LET rest == WalkWeight(G, f, Pv, s, Pv[w], fuel - 1)
         IN  IF rest = None THEN None ELSE rest + WeightOf(G, f, Pv[w], w)

\* The graph of the example: vertices 1, 2, 3, edges 1->2 of weight 5, 1->3 of
\* weight 2, 3->2 of weight 1.
ExampleGraph == Build(<<1, 2, 3>>, << <<1, 2, 5>>, <<1, 3, 2>>, <<3, 2, 1>> >>).g
ExampleWeight == [x \in {1, 2, 5} |-> x]

\* C7: for a start vertex s present and non-negative weights, walking the
\* returned predecessor map from any vertex w reachable from s reaches s in
\* finitely many steps, every step is an edge of the graph, and the weight of
\* the path walked is the least weight of a directed path from s to w; the
\* example graph, from 1, yields 1 -> 1, 2 -> 3, 3 -> 1.
C7_WalkIsShortestPath ==
    /\ SPStartPresent =>
          LET G == g["a"]
              s == call.args[2]
              f == call.args[3]
          IN  \A w \in ReachFrom(G, {s}) :
                 /\ WalkWeight(G, f, call.val, s, w, Len(vertices(G))) # None
                 /\ WalkWeight(G, f, call.val, s, w, Len(vertices(G)))
                       = LeastWeightFrom(G, f, s)[w]
    /\ findShortestPaths(ExampleGraph, 1, ExampleWeight).Pv = (1 :> 1) @@ (2 :> 3) @@ (3 :> 1)

\* The map returned leads to a vertex over another one although an edge from
\* the start to that vertex exists: the path of two edges is the lighter one.
C7_Witness ==
    /\ SPStartPresent
    /\ \E w \in DOMAIN call.val :
          /\ call.val[w] \notin {w, call.args[2]}
          /\ call.val[call.val[w]] = call.args[2]
          /\ \E slot \in EdgeSlots(g["a"]) :
                /\ EdgeAt(g["a"], slot).fromVertex = call.args[2]
                /\ EdgeAt(g["a"], slot).toVertex = w

\* C8: isStronglyConnected() returns true exactly when every vertex is
\* reachable from every other vertex by a directed path: true for the empty
\* graph and for one vertex without edges, and equal to the all-pairs
\* reachability of every graph the mutators build.
AllPairsReachable(G) ==
    \A x \in Elems(vertices(G)) : Elems(vertices(G)) \subseteq ReachFrom(G, {x})

C8_StronglyConnectedIffAllPairs ==
    /\ (call.op = "isStronglyConnected" /\ call.args[1] = "a")
          => (result = Ok /\ call.val = AllPairsReachable(g["a"]))
    /\ isStronglyConnected(g["a"]).val = AllPairsReachable(g["a"])
    /\ isStronglyConnected(Digraph).val = TRUE
    /\ isStronglyConnected(addVertex(Digraph, 1, "p").g).val = TRUE

\* isStronglyConnected has returned true for a graph of three vertices.
C8_Witness ==
    /\ call.op = "isStronglyConnected"
    /\ call.val = TRUE
    /\ Len(vertices(g["a"])) = 3

\* C9: after a move construction or move assignment from d, d.vertexCount()
\* is the number of identifiers in d.vertices() and d.edgeCount() the number
\* of pairs in d.edges(), and this stays so under further addVertex, addEdge,
\* removeVertex and removeEdge calls on d.
C9_MovedFromIsValid ==
    \A o \in live :
        /\ vertexCount(g[o]) = Len(vertices(g[o]))
        /\ edgeCount(g[o]) = Len(edges(g[o]))

\* C10: findShortestPaths with a start vertex that is not present fails with
\* NoSuchVertex and makes no out-of-range access to its arrays.
C10_AbsentStartThrows == SPStartAbsent => result = NoSuchVertex

\* C11: edgeInfo, addEdge and removeEdge end with NoSuchVertex whenever the
\* source or the destination is absent, whatever else holds; with both
\* present, edgeInfo and removeEdge end with NoSuchEdge exactly when there is
\* no edge in that direction (a reverse edge does not count) and addEdge ends
\* with EdgeAlreadyExists exactly when there is one; edges(v), edgeCount(v)
\* and vertexInfo(v) end with NoSuchVertex for every absent v.
HasEdge(G, x, y) == x \in Present(G) /\ HasEdgeTo(G.m[x].edges, y)

EdgeOutcome(G, x, y, absent, missing, there) ==
    IF x \notin Present(G) \/ y \notin Present(G) THEN absent
    ELSE IF HasEdge(G, x, y) THEN there
    ELSE missing

ErrorsByPrecedence(G) ==
    /\ \A x \in Ids, y \in Ids :
          /\ edgeInfo(G, x, y).r = EdgeOutcome(G, x, y, NoSuchVertex, NoSuchEdge, Ok)
          /\ removeEdge(G, x, y).r = EdgeOutcome(G, x, y, NoSuchVertex, NoSuchEdge, Ok)
          /\ \A einfo \in EdgeInfos :
                addEdge(G, x, y, einfo).r
                    = EdgeOutcome(G, x, y, NoSuchVertex, Ok, EdgeAlreadyExists)
    /\ \A x \in Ids \ Present(G) :
          /\ edgesOf(G, x).r = NoSuchVertex
          /\ edgeCountOf(G, x).r = NoSuchVertex
          /\ vertexInfo(G, x).r = NoSuchVertex

C11_ErrorPrecedence ==
    /\ [](\A o \in live : ErrorsByPrecedence(g[o]))
    /\ [][\A o \in Objs, x \in Ids, y \in Ids :
             /\ (call'.op = "removeEdge" /\ RemoveEdge(o, x, y))
                   => result' = EdgeOutcome(g[o], x, y, NoSuchVertex, NoSuchEdge, Ok)
             /\ \A einfo \in EdgeInfos :
                   (call'.op = "addEdge" /\ AddEdge(o, x, y, einfo))
                       => result' = EdgeOutcome(g[o], x, y, NoSuchVertex, Ok,
                                                EdgeAlreadyExists)]_vars

\* removeEdge has ended with NoSuchEdge for a pair whose reverse edge exists.
C11_Witness ==
    /\ call.op = "removeEdge"
    /\ result = NoSuchEdge
    /\ \E x \in Present(g["a"]), y \in Present(g["a"]) :
          x # y /\ HasEdge(g["a"], x, y) /\ ~HasEdge(g["a"], y, x)

\* C12: a copy construction or copy assignment of d gives an object with the
\* vertices, vertex payloads, edges and edge payloads of d and leaves d as it
\* was; and a call of addVertex, addEdge, removeVertex or removeEdge on one
\* object leaves every other object as it was: its vertices, its edges,
\* vertexCount() and edgeCount().
SameGraph(A, B) ==
    /\ B.m = A.m
    /\ Elems(vertices(B)) = Elems(vertices(A))
    /\ Elems(edges(B)) = Elems(edges(A))

MutatorCalledOn(o) ==
    \/ \E vertex \in Ids, vinfo \in VertexInfos : AddVertex(o, vertex, vinfo)
    \/ \E fromVertex \in Ids, toVertex \in Ids, einfo \in EdgeInfos :
          AddEdge(o, fromVertex, toVertex, einfo)
    \/ \E vertex \in Ids : RemoveVertex(o, vertex)
    \/ \E fromVertex \in Ids, toVertex \in Ids : RemoveEdge(o, fromVertex, toVertex)

C12_CopyIndependent ==
    [][\A o \in Objs : \A d \in Objs \ {o} :
          /\ (/\ call'.op \in {"Digraph(const Digraph&)", "operator=(const Digraph&)"}
              /\ (CopyConstruct(o, d) \/ CopyAssign(o, d)))
                => (result' = Ok /\ SameGraph(g[d], g'[o]) /\ g'[d] = g[d])
          /\ (/\ call'.op \in {"addVertex", "addEdge", "removeVertex", "removeEdge"}
              /\ MutatorCalledOn(o))
                => g'[d] = g[d]]_vars

\* b is what a copy of a followed by a removeEdge gives, and a still holds
\* the edge.
C12_Witness ==
    /\ call.op = "removeEdge"
    /\ result = Ok
    /\ live = {"a", "b"}
    /\ edgeCount(g["a"]) >= 1
    /\ \E x \in Ids, y \in Ids :
          /\ HasEdge(g["a"], x, y)
          /\ g["b"] = removeEdge(CopyOf(g["a"]).g, x, y).g

\* C13: after any sequence of addVertex, addEdge, removeVertex and removeEdge
\* calls no two edges have the same ordered pair (source, destination): no
\* outgoing list holds two edges with the same destination, every edge of a
\* vertex's list has that vertex as its source, and edges() holds no pair
\* twice.
NoDuplicatePairs(G) ==
    /\ \A x \in Present(G) :
          \A i \in 1..Len(G.m[x].edges), j \in 1..Len(G.m[x].edges) :
             /\ G.m[x].edges[i].fromVertex = x
             /\ i # j => G.m[x].edges[i].toVertex # G.m[x].edges[j].toVertex
    /\ \A i \in 1..Len(edges(G)), j \in 1..Len(edges(G)) :
          i # j => edges(G)[i] # edges(G)[j]

C13_NoDuplicatePairs == \A o \in live : NoDuplicatePairs(g[o])

\* A rebuild by removeVertex has left a vertex with two outgoing edges.
C13_Witness ==
    /\ call.op = "removeVertex"
    /\ result = Ok
    /\ Len(edges(g["a"])) = 2
    /\ \E x \in Present(g["a"]) : Len(g["a"].m[x].edges) = 2

\* C14: for an identifier v that is not in the graph, addVertex(v, info)
\* returns normally; afterwards vertexInfo(v) returns info, vertexCount() is
\* greater by exactly 1, edgeCount(v) is 0, and every other vertex, payload
\* and edge is as before.
AddsExactly(G, H, x, vinfo) ==
    /\ vertexInfo(H, x) = [r |-> Ok, val |-> vinfo]
    /\ vertexCount(H) = vertexCount(G) + 1
    /\ edgeCountOf(H, x) = [r |-> Ok, val |-> 0]
    /\ Present(H) = Present(G) \cup {x}
    /\ vertices(H) = Append(vertices(G), x)
    /\ \A y \in Present(G) : H.m[y] = G.m[y] /\ vertexInfo(H, y) = vertexInfo(G, y)
    /\ edges(H) = edges(G)
    /\ edgeCount(H) = edgeCount(G)

C14_AddVertexExact ==
    [][\A o \in Objs, vertex \in Ids, vinfo \in VertexInfos :
          (/\ call'.op = "addVertex"
           /\ AddVertex(o, vertex, vinfo)
           /\ vertex \notin Present(g[o]))
              => (result' = Ok /\ AddsExactly(g[o], g'[o], vertex, vinfo))]_vars

\* addVertex has added a third vertex to a graph that holds an edge.
C14_Witness ==
    /\ call.op = "addVertex"
    /\ result = Ok
    /\ vertexCount(g["a"]) = 3
    /\ edgeCount(g["a"]) >= 1
    /\ edgeCountOf(g["a"], g["a"].v[3]).val = 0

\* C15: after any sequence of addVertex, addEdge, removeVertex, removeEdge,
\* copy assignment and move assignment (and of constructions and
\* destructions), in every object vertices() enumerates exactly the keys of
\* the map m, each once, and edges() enumerates exactly the pairs (source,
\* destination) of the edges in the outgoing lists, each once.
NoRepeat(s) == \A i \in 1..Len(s), j \in 1..Len(s) : i # j => s[i] # s[j]
PairsOfLists(G) ==
    {<<EdgeAt(G, slot).fromVertex, EdgeAt(G, slot).toVertex>> : slot \in EdgeSlots(G)}

ListingsAgree(G) ==
    /\ Elems(vertices(G)) = Present(G)
    /\ NoRepeat(vertices(G))
    /\ Elems(edges(G)) = PairsOfLists(G)
    /\ NoRepeat(edges(G))
    /\ Len(edges(G)) = Cardinality(EdgeSlots(G))

C15_ListingsAgree == \A o \in live : ListingsAgree(g[o])

\* A move assignment has handed a vertex with an edge to its target and has
\* left the source without vertices.
C15_Witness ==
    /\ call.op = "operator=(Digraph&&)"
    /\ live = {"a", "b"}
    /\ \E o \in live : Len(edges(g[o])) >= 1 /\ \A d \in live \ {o} : Len(vertices(g[d])) = 0

\* C19: for an edge (from, to) that is present, removeEdge(from, to) returns
\* normally and removes exactly that edge: edgeCount() and edgeCount(from)
\* are less by exactly 1, the pair is no longer in edges() nor in
\* edges(from), and every other edge (a reverse edge included), every
\* vertex and every payload is as before.
RemovesEdgeExactly(G, H, x, y) ==
    /\ edgeCount(H) = edgeCount(G) - 1
    /\ edgeCountOf(H, x).r = Ok
    /\ edgeCountOf(H, x).val = edgeCountOf(G, x).val - 1
    /\ <<x, y>> \notin Elems(edges(H))
    /\ <<x, y>> \notin Elems(edgesOf(H, x).val)
    /\ edges(H) = SelectSeq(edges(G), LAMBDA pair : pair # <<x, y>>)
    /\ Present(H) = Present(G)
    /\ vertices(H) = vertices(G)
    /\ vertexCount(H) = vertexCount(G)
    /\ \A z \in Present(G) :
          /\ H.m[z].vinfo = G.m[z].vinfo
          /\ H.m[z].edges =
                SelectSeq(G.m[z].edges,
                          LAMBDA edge : ~(edge.fromVertex = x /\ edge.toVertex = y))

C19_RemoveEdgeExact ==
    [][\A o \in Objs, fromVertex \in Ids, toVertex \in Ids :
          (/\ call'.op = "removeEdge"
           /\ RemoveEdge(o, fromVertex, toVertex)
           /\ HasEdge(g[o], fromVertex, toVertex))
              => (result' = Ok /\ RemovesEdgeExactly(g[o], g'[o], fromVertex, toVertex))]_vars

\* removeEdge has removed an edge and has left its reverse edge.
C19_Witness ==
    /\ call.op = "removeEdge"
    /\ result = Ok
    /\ \E x \in Present(g["a"]), y \in Present(g["a"]) :
          x # y /\ HasEdge(g["a"], y, x) /\ ~HasEdge(g["a"], x, y)

\* What a caller can observe of a graph: vertices(), edges(), both counts,
\* and for every identifier vertexInfo, edges(v), edgeCount(v) and the
\* payloads of the outgoing edges.
Observable(G) ==
    [vertices |-> vertices(G),
     edges |-> edges(G),
     vertexCount |-> vertexCount(G),
     edgeCount |-> edgeCount(G),
     vertexInfo |-> [x \in Ids |-> vertexInfo(G, x)],
     edgesOf |-> [x \in Ids |-> edgesOf(G, x)],
     edgeCountOf |-> [x \in Ids |-> edgeCountOf(G, x)],
     edgeInfo |-> [pair \in Ids \X Ids |-> edgeInfo(G, pair[1], pair[2])]]

\* addVertex(x, vinfo) followed by removeVertex(x); addEdge(x, y, einfo)
\* followed by removeEdge(x, y).
AddRemoveVertex(G, x, vinfo) == removeVertex(addVertex(G, x, vinfo).g, x)
AddRemoveEdge(G, x, y, einfo) == removeEdge(addEdge(G, x, y, einfo).g, x, y)

\* The two round trips, from every graph the mutators build, for x absent
\* and for a pair x, y of present vertices without an edge from x to y.
EdgeRoundTripExact(G) ==
    \A x \in Present(G), y \in Present(G), einfo \in EdgeInfos :
       ~HasEdge(G, x, y) =>
          /\ AddRemoveEdge(G, x, y, einfo).r = Ok
          /\ Observable(AddRemoveEdge(G, x, y, einfo).g) = Observable(G)

VertexRoundTripExact(G) ==
    \A x \in Ids \ Present(G), vinfo \in VertexInfos :
       /\ AddRemoveVertex(G, x, vinfo).r = Ok
       /\ Observable(AddRemoveVertex(G, x, vinfo).g) = Observable(G)

\* edges(vs[1]) followed by edges(vs[2]) and so on: the pairs of G grouped by
\* source in the order vs.
RECURSIVE GroupedBySource(_, _)
GroupedBySource(G, vs) ==
    IF vs = <<>> THEN <<>>
    ELSE edgesOf(G, Head(vs)).val \o GroupedBySource(G, Tail(vs))

\* The same with edges() compared as a set of pairs, and its order stated.
VertexRoundTripUpToEdgeOrder(G) ==
    \A x \in Ids \ Present(G), vinfo \in VertexInfos :
       LET H == AddRemoveVertex(G, x, vinfo).g
       IN  /\ AddRemoveVertex(G, x, vinfo).r = Ok
           /\ [Observable(H) EXCEPT !.edges = Elems(@)]
                 = [Observable(G) EXCEPT !.edges = Elems(@)]
           /\ Len(edges(H)) = Len(edges(G))
           /\ edges(H) = GroupedBySource(G, vertices(G))

\* C20 as stated: addVertex(x, info) followed by removeVertex(x), for x not
\* in the graph, and addEdge(a, b, info) followed by removeEdge(a, b), for a
\* pair not present, both restore the observable state exactly: vertices()
\* and edges() the same sequences in the same order, the counts, the
\* payloads and every edges(v).
C20_RoundTripExact ==
    \A o \in live : VertexRoundTripExact(g[o]) /\ EdgeRoundTripExact(g[o])

\* C20: addEdge(a, b, info) followed by removeEdge(a, b) restores the
\* observable state exactly; addVertex(x, info) followed by removeVertex(x)
\* restores vertices() in order, both counts, all payloads and every
\* edges(v), and leaves in edges() the same pairs, each once, in the order
\* removeVertex gives them: grouped by source in the order of vertices().
C20_RoundTripUpToEdgeOrder ==
    \A o \in live : VertexRoundTripUpToEdgeOrder(g[o]) /\ EdgeRoundTripExact(g[o])

\* A graph whose edges() changes its order under addVertex(x) followed by
\* removeVertex(x), and that has a pair of vertices without an edge.
C20_Witness ==
    /\ call.op = "addEdge"
    /\ result = Ok
    /\ \E x \in Ids \ Present(g["a"]) :
          edges(AddRemoveVertex(g["a"], x, "p").g) # edges(g["a"])
    /\ \E x \in Present(g["a"]), y \in Present(g["a"]) : ~HasEdge(g["a"], x, y)

\* A step of the loop of findShortestPaths is being taken; the graph, the
\* start vertex and the weight function of the running call; the vertex on
\* top of the queue S.pq and its index (the code's plus one).
Iterating == IF call.op = "findShortestPaths" THEN IterateShortestPaths ELSE FALSE
RunGraph == g[call.args[1]]
RunStart == call.args[2]
RunWeight == call.args[3]
Popped(S) == Top(S.pq)[2]
PoppedIndex(S) == indexOf(Popped(S), RunGraph.v) + 1

\* C16: in findShortestPaths with non-negative weights, a vertex that is
\* popped unvisited is marked visited with a tentative distance that is the
\* least weight of a path from the start to it; the distance and the
\* predecessor of a visited vertex change at no later step; and popping an
\* entry of a visited vertex changes no distance, no predecessor and no
\* visited mark, and leaves the queue with its other entries.
C16_VisitedIsFinal ==
    [][Iterating =>
          LET S == call.S
              T == call'.S
              index == PoppedIndex(S)
          IN  /\ T.r = Ok
              /\ index # 0
              /\ ~S.Kv[index] =>
                    /\ T.Kv[index]
                    /\ S.Dv[index] = LeastWeightFrom(RunGraph, RunWeight, RunStart)[Popped(S)]
                    /\ T.Dv[index] = S.Dv[index]
                    /\ T.Pv[Popped(S)] = S.Pv[Popped(S)]
              /\ \A i \in 1..Len(RunGraph.v) :
                    S.Kv[i] =>
                       /\ T.Kv[i]
                       /\ T.Dv[i] = S.Dv[i]
                       /\ T.Pv[RunGraph.v[i]] = S.Pv[RunGraph.v[i]]
              /\ S.Kv[index] =>
                    /\ T.Dv = S.Dv
                    /\ T.Pv = S.Pv
                    /\ T.Kv = S.Kv
                    /\ T.pq = EraseAt(S.pq, TopIndex(S.pq))]_vars

\* The last step of the loop has popped an entry of a vertex that was
\* visited already, in a call that has given a vertex a predecessor.
C16_Witness ==
    /\ Running("findShortestPaths")
    /\ call.prev # call.S
    /\ call.prev.Kv[PoppedIndex(call.prev)]
    /\ \E x \in DOMAIN call.S.Pv : call.S.Pv[x] # x

\* The relaxations of a step that visits a vertex: the edges of the vertex
\* popped, each with the index of its target and the tentative distance
\* through the vertex popped. A target is in the list once (C13), so its
\* distance before its relaxation is the one before the step.
Relaxations(S) ==
    IF S.Kv[PoppedIndex(S)] THEN {}
    ELSE {[w |-> edge.toVertex,
           indexW |-> indexOf(edge.toVertex, RunGraph.v) + 1,
           through |-> S.Dv[PoppedIndex(S)] + RunWeight[edge.einfo]] :
              edge \in Elems(RunGraph.m[Popped(S)].edges)}

\* A relaxation whose distance equals the one its target has from an earlier
\* relaxation, through another vertex.
Ties(S) == {x \in Relaxations(S) : S.Dv[x.indexW] = x.through /\ S.Pv[x.w] # x.w}

\* C18 as stated: when the distance through the vertex visited equals the
\* tentative distance the target has from an earlier relaxation, the later
\* relaxation sets the target's predecessor (last write wins).
C18_LastWriteWins ==
    [][Iterating => \A x \in Ties(call.S) : call'.S.Pv[x.w] = Popped(call.S)]_vars

\* C18: when the distance through the vertex visited equals the tentative
\* distance the target has from an earlier relaxation, the target keeps its
\* predecessor and its distance and nothing is pushed for it (first write
\* wins); a relaxation sets the predecessor exactly when its distance is
\* strictly less than the target's.
C18_FirstWriteWins ==
    [][Iterating =>
          LET S == call.S
              T == call'.S
          IN  /\ \A x \in Ties(S) :
                    /\ T.Pv[x.w] = S.Pv[x.w]
                    /\ T.Pv[x.w] # Popped(S)
                    /\ T.Dv[x.indexW] = S.Dv[x.indexW]
                    /\ <<x.through, x.w>> \notin Elems(T.pq) \ Elems(S.pq)
              /\ \A x \in Relaxations(S) :
                    IF S.Dv[x.indexW] > x.through
                    THEN T.Pv[x.w] = Popped(S) /\ T.Dv[x.indexW] = x.through
                    ELSE T.Pv[x.w] = S.Pv[x.w] /\ T.Dv[x.indexW] = S.Dv[x.indexW]]_vars

\* The last step has visited a vertex with an edge to a target whose
\* distance from an earlier relaxation equals the one through that vertex.
C18_Witness ==
    /\ Running("findShortestPaths")
    /\ call.prev # call.S
    /\ Ties(call.prev) # {}

\* A call of findShortestPaths or isStronglyConnected is inside its loop;
\* has returned.
InLoop == IF call.op = "none" THEN FALSE ELSE call.pc = "loop"
Returned == IF call.op = "none" THEN FALSE ELSE call.pc = "return"

\* A step of isStronglyConnected that calls DFTr: the stack of open calls
\* grows. The working copy the call is given is v for the call made by
\* isStronglyConnected, and the present copy for a recursive call.
DFTrCalled ==
    IF call.op = "isStronglyConnected"
    THEN (NextRoot \/ NextEdge) /\ Len(call'.S.stack) > Len(call.S.stack)
    ELSE FALSE
CopyGiven == IF call.S.stack = <<>> THEN RunGraph.v ELSE call.S.vertices

\* C17: on every graph, with cycles and self-loops, a call of
\* findShortestPaths (non-negative weights, start present) empties its queue
\* and returns, and a call of isStronglyConnected returns; every call of DFTr
\* is made on a vertex that is in the working copy, takes that vertex out of
\* the copy and so leaves it shorter by one, and no step ends with an
\* exception or an erase of a position that does not exist.
C17_QueriesReturn ==
    /\ InLoop ~> Returned
    /\ [](Returned => result = Ok)
    /\ []((Returned /\ call.op = "findShortestPaths") => call.S.pq = <<>>)
    /\ [][DFTrCalled =>
             LET called == call'.S.stack[Len(call'.S.stack)].vertex
             IN  /\ called \in Elems(CopyGiven)
                 /\ called \notin Elems(call'.S.vertices)
                 /\ Len(call'.S.vertices) = Len(CopyGiven) - 1]_vars
    /\ [][(IF call.op = "isStronglyConnected" THEN NextRoot \/ NextEdge ELSE FALSE)
             => call'.S.r = Ok]_vars

\* findShortestPaths has returned on a graph with a self-loop and a cycle of
\* two vertices.
C17_Witness ==
    /\ Returned
    /\ call.op = "findShortestPaths"
    /\ result = Ok
    /\ \E x \in Present(g["a"]), y \in Present(g["a"]) :
          /\ x # y
          /\ HasEdge(g["a"], x, x)
          /\ HasEdge(g["a"], x, y)
          /\ HasEdge(g["a"], y, x)
          /\ call.args[2] = x

====
